---- MODULE Spec2Model ----
(***************************************************************************)
(* A model of the SSH smart subtransport (src/transports/ssh.c): the       *)
(* ssh_subtransport with its current_stream slot, the ssh_stream objects   *)
(* with their socket/session/channel handles, the connection setup with    *)
(* its retry loops, the deferred remote command, and the teardown.         *)
(*                                                                         *)
(* The libssh2 provider, the network primitives and the credential         *)
(* callback are the environment: each of their results is drawn with \E.   *)
(* Strings are sequences of one-character strings, so that strchr, the     *)
(* prefix test and the printf of gen_proto are computed, not assumed.      *)
(***************************************************************************)
EXTENDS Integers, Sequences, FiniteSets, TLC

\* ------------------------------------------------------------------ bounds
\* Streams the subtransport may allocate in one run (git__calloc calls that
\* succeed); List actions beyond it are not issued.
MaxStreams == 2
\* Times one retry loop of the setup may be re-entered on a transient result.
MaxRetries == 2

\* ----------------------------------------------------------------- strings
NULL == 0
NUL == "\\0"

prefix_ssh == <<"s","s","h",":","/","/">>
default_user == <<"g","i","t">>
cmd_uploadpack == <<"g","i","t","-","u","p","l","o","a","d","-","p","a","c","k">>
cmd_receivepack == <<"g","i","t","-","r","e","c","e","i","v","e","-","p","a","c","k">>

\* The URLs the caller passes: both syntaxes, with and without the part the
\* parsers require.
UrlSshUserPass == prefix_ssh \o <<"u",":","p","@","h","/","r">>
UrlSshNoSlash == prefix_ssh \o <<"h">>
UrlShortUser == <<"u","@","h",":","r">>
UrlShortNoColon == <<"h","/","r">>
Urls == {UrlSshUserPass, UrlSshNoSlash, UrlShortUser, UrlShortNoColon}

\* git__prefixcmp(str, prefix) == 0
HasPrefix(str, prefix) ==
    /\ Len(str) >= Len(prefix)
    /\ SubSeq(str, 1, Len(prefix)) = prefix

\* Index of the first c in str, 0 when there is none.
IndexOf(str, c) ==
    IF \E i \in 1..Len(str) : str[i] = c
    THEN CHOOSE i \in 1..Len(str) : str[i] = c /\ \A j \in 1..(i-1) : str[j] # c
    ELSE 0

\* strchr(str, c): the suffix of str that starts at the first c; <<>> stands
\* for the NULL result (a found suffix is never empty).
strchr(str, c) ==
    IF IndexOf(str, c) = 0 THEN <<>> ELSE SubSeq(str, IndexOf(str, c), Len(str))

\* gen_proto that looks for the path in the whole URL, scheme included.
gen_proto_KeepsScheme(cmd, url) ==
    LET repo == IF HasPrefix(url, prefix_ssh) THEN strchr(url, "/") ELSE strchr(url, ":")
    IN IF repo = <<>>
       THEN [rc |-> -1, request |-> <<>>]
       ELSE [rc |-> 0, request |-> cmd \o <<" ", "'">> \o repo \o <<"'">> \o <<NUL>>]

\* gen_proto: [rc, request]; request holds the bytes of the git_buf, the
\* terminator written by git_buf_putc included.
gen_proto(cmd, url) ==
    LET repo == IF HasPrefix(url, prefix_ssh)
                THEN strchr(SubSeq(url, Len(prefix_ssh) + 1, Len(url)), "/")
                ELSE strchr(url, ":")
    IN IF repo = <<>>
       THEN [rc |-> -1, request |-> <<>>]
       ELSE [rc |-> 0, request |-> cmd \o <<" ", "'">> \o repo \o <<"'">> \o <<NUL>>]

\* git_ssh_extract_url_parts: [rc, host, username].
git_ssh_extract_url_parts(url) ==
    LET colon == IndexOf(url, ":")
        at == IndexOf(url, "@")
    IN IF colon = 0
       THEN [rc |-> -1, host |-> <<>>, username |-> <<>>, err |-> "MALFORMED_URL_MISSING_COLON"]
       ELSE [rc |-> 0,
             host |-> SubSeq(url, at + 1, colon - 1),
             username |-> IF at # 0 THEN SubSeq(url, 1, at - 1) ELSE default_user,
             err |-> "NONE"]

\* gitno_extract_url_parts (netops.c) on the URL after the scheme:
\* [user[:pass]@]host[:port]/path; a URL with no "/" is malformed.
gitno_extract_url_parts(url) ==
    LET slash == IndexOf(url, "/")
        at == IndexOf(url, "@")
        colon == IndexOf(url, ":")
    IN IF slash = 0
       THEN [rc |-> -1, user |-> FALSE, pass |-> FALSE]
       ELSE [rc |-> 0,
             user |-> at # 0,
             pass |-> at # 0 /\ colon # 0 /\ colon < at]


\* ------------------------------------------------------------------- state
VARIABLES
    current_stream, \* ssh_subtransport.current_stream: NULL or a stream
    cred,           \* ssh_subtransport.cred: the credtype of the credential held
    streams,        \* the ssh_stream objects, by allocation number
    nalloc,         \* streams allocated so far
    sockets,        \* sockets open at the network provider
    sessions,       \* LIBSSH2_SESSIONs not yet freed
    channels,       \* LIBSSH2_CHANNELs not yet freed
    pc,             \* where the subtransport is: idle, inside the setup, dead
    setup,          \* _git_ssh_setup_conn while it runs: its locals s and session,
                    \* and the provider calls it has made in each of its loops
    chan,           \* per stream, what the channel provider was asked to do
    held,           \* streams the caller was handed by a successful action and has not freed
    ret,            \* the call in progress or last completed: arguments, result, outputs
    lastList        \* stream of the latest successful List, until a free or another List

vars == <<current_stream, cred, streams, nalloc, sockets, sessions, channels,
          pc, setup, chan, held, ret, lastList>>

StreamIds == 1..MaxStreams

CredTypes == {"USERPASS_PLAINTEXT", "SSH_KEYFILE_PASSPHRASE", "OTHER"}

\* Results of a libssh2 call: success, the two transient signals, a failure.
ProviderResults == {"OK", "EAGAIN", "TIMEOUT", "ERROR"}

\* A retry test that knows LIBSSH2_ERROR_EAGAIN only.
IsTransient_OnlyAgain(rc) == rc = "EAGAIN"

\* The loop conditions of lines 259 and 317.
IsTransient(rc) == rc \in {"EAGAIN", "TIMEOUT"}

\* An ssh_stream slot that was never allocated, and one that was freed.
NoStream ==
    [st |-> "unalloc", socket |-> NULL, session |-> NULL, channel |-> NULL,
     cmd |-> <<>>, url |-> <<>>, sent_command |-> 0]
FreedStream == [NoStream EXCEPT !.st = "freed"]

\* ssh_stream_alloc: a zeroed ssh_stream with cmd and a copy of url.
ssh_stream_alloc(url, cmd) ==
    [st |-> "live", socket |-> NULL, session |-> NULL, channel |-> NULL,
     cmd |-> cmd, url |-> url, sent_command |-> 0]

\* What the channel of a stream has seen: an exec request (tried), one that
\* succeeded (ok), a read or write (io), and the bytes of the latest exec.
NoChan == [tried |-> FALSE, ok |-> FALSE, io |-> FALSE, request |-> <<>>]
NoSetup == [s |-> NULL, session |-> NULL, startup |-> 0, auth |-> 0]

\* A call: op and kind name it, pre is current_stream on entry; rc, set and
\* out are the return value, whether *stream was assigned and what it holds;
\* err is the giterr_set message; s the stream worked on; exec and io what
\* a read or write asked of the channel; teardown the releases made; failed
\* the step of the setup whose result made it fail; prov the result of the
\* latest libssh2 call of the setup; done whether it returned.
NoRet ==
    [op |-> "none", kind |-> "-", rc |-> 0, set |-> FALSE, out |-> NULL,
     err |-> "NONE", s |-> NULL, exec |-> "none", io |-> FALSE, pre |-> NULL,
     teardown |-> <<>>, failed |-> "none", prov |-> "none", done |-> TRUE]

\* The record of a call entered now.
Call(op, kind) == [NoRet EXCEPT !.op = op, !.kind = kind, !.pre = current_stream]

\* The part of the state the stream routines work on; teardown collects the
\* provider release calls of ssh_stream_free, in order.
Heap ==
    [current_stream |-> current_stream, streams |-> streams, sockets |-> sockets,
     sessions |-> sessions, channels |-> channels, teardown |-> <<>>]

Commit(h) ==
    /\ current_stream' = h.current_stream
    /\ streams' = h.streams
    /\ sockets' = h.sockets
    /\ sessions' = h.sessions
    /\ channels' = h.channels

Init ==
    /\ current_stream = NULL
    /\ cred = "NONE"
    /\ streams = [i \in StreamIds |-> NoStream]
    /\ nalloc = 0
    /\ sockets = {}
    /\ sessions = {}
    /\ channels = {}
    /\ pc = "idle"
    /\ setup = NoSetup
    /\ chan = [i \in StreamIds |-> NoChan]
    /\ held = {}
    /\ ret = NoRet
    /\ lastList = NULL

\* ---------------------------------------------------------------- teardown
\* A teardown that leaves the owner's current_stream as it is.
ssh_stream_free_KeepsCurrent(h, id) ==
    LET s == h.streams[id] IN
    [h EXCEPT
        !.channels = @ \ {s.channel},
        !.sessions = @ \ {s.session},
        !.sockets = @ \ {s.socket},
        !.streams[id] = FreedStream]

\* A teardown that closes the socket before the session and channel on it.
ssh_stream_free_SocketFirst(h, id) ==
    LET s == h.streams[id] IN
    [h EXCEPT
        !.current_stream = NULL,
        !.channels = @ \ {s.channel},
        !.sessions = @ \ {s.session},
        !.sockets = @ \ {s.socket},
        !.teardown =
            (IF s.socket # NULL THEN <<"gitno_close">> ELSE <<>>)
            \o (IF s.channel # NULL THEN <<"channel_close", "channel_free">> ELSE <<>>)
            \o (IF s.session # NULL THEN <<"session_free">> ELSE <<>>),
        !.streams[id] = FreedStream]

\* ssh_stream_free: clears the owner's current_stream, then releases what the
\* stream holds: channel close and free, session free, socket close.
ssh_stream_free(h, id) ==
    LET s == h.streams[id] IN
    [h EXCEPT
        !.current_stream = NULL,
        !.channels = @ \ {s.channel},
        !.sessions = @ \ {s.session},
        !.sockets = @ \ {s.socket},
        !.teardown =
            (IF s.channel # NULL THEN <<"channel_close", "channel_free">> ELSE <<>>)
            \o (IF s.session # NULL THEN <<"session_free">> ELSE <<>>)
            \o (IF s.socket # NULL THEN <<"gitno_close">> ELSE <<>>),
        !.streams[id] = FreedStream]

\* The on_error label of _git_ssh_setup_conn: *stream is the stream allocated
\* by this call, so it is freed; the pointer in *stream is left as it is.
on_error(h, id) == ssh_stream_free(h, id)

\* ------------------------------------------------------------ List actions
ServiceCmd(kind) ==
    IF kind \in {"UPLOADPACK_LS", "UPLOADPACK"} THEN cmd_uploadpack ELSE cmd_receivepack

\* What the URL parsers of lines 281-289 yield for url: [rc, user, pass, err],
\* user and pass telling whether the pointer is set.
ParseUrl(url) ==
    IF HasPrefix(url, prefix_ssh)
    THEN LET p == gitno_extract_url_parts(SubSeq(url, Len(prefix_ssh) + 1, Len(url)))
         IN [rc |-> p.rc, user |-> p.user, pass |-> p.pass,
             err |-> IF p.rc < 0 THEN "MALFORMED_URL_MISSING_SLASH" ELSE "NONE"]
    ELSE LET p == git_ssh_extract_url_parts(url)
         IN [rc |-> p.rc, user |-> p.rc = 0, pass |-> FALSE, err |-> p.err]

\* gitno_connect on the stream's socket: on success the socket field holds
\* the descriptor, on failure it stays zero.
gitno_connect(h, id, ok) ==
    IF ok
    THEN [h EXCEPT !.streams[id].socket = id, !.sockets = @ \cup {id}]
    ELSE h

\* A call returns with record r.
Returned(r) ==
    /\ ret' = [r EXCEPT !.done = TRUE]
    /\ pc' = "idle"
    /\ setup' = NoSetup

\* _git_action for a List service: _git_uploadpack_ls / _git_receivepack_ls,
\* and _git_ssh_setup_conn from its entry to libssh2_session_init (lines
\* 271-312). alloc, conn, cb and init are the results of ssh_stream_alloc
\* (its git__calloc and git__strdup), of
\* gitno_connect, of the credential callback and of libssh2_session_init;
\* ub is what freeing the uninitialised host pointer does. A callback that
\* succeeds leaves a credential, so the assert of line 304 holds.
CallList(kind, url, alloc, conn, cb, init, ub) ==
    /\ pc = "idle"
    /\ alloc = "ok" => nalloc < MaxStreams
    /\ lastList' = NULL
    /\ UNCHANGED <<chan, held>>
    /\ LET id == nalloc + 1
           c0 == [Call("list", kind) EXCEPT !.set = TRUE, !.out = NULL]
           c1 == [c0 EXCEPT !.out = id, !.s = id]
           h0 == [Heap EXCEPT !.streams[id] = ssh_stream_alloc(url, ServiceCmd(kind))]
           parts == ParseUrl(url)
           h1 == gitno_connect(h0, id, conn)
           inline == parts.user /\ parts.pass
           newcred == IF inline THEN "USERPASS_PLAINTEXT" ELSE cb
       IN IF alloc # "ok"
          THEN \* ssh_stream_alloc failed: *stream stays NULL
               /\ Returned([c0 EXCEPT !.rc = -1, !.err = "OOM", !.failed = "alloc"])
               /\ UNCHANGED <<current_stream, streams, sockets, sessions, channels,
                              nalloc, cred>>
          ELSE /\ nalloc' = id
               /\ IF parts.rc < 0
                  THEN \* goto on_error with host never assigned
                       /\ Commit(on_error(h0, id))
                       /\ cred' = cred
                       /\ IF ub = "crash"
                          THEN /\ pc' = "aborted"
                               /\ setup' = NoSetup
                               /\ ret' = [c1 EXCEPT !.done = FALSE, !.err = parts.err,
                                                    !.failed = "url",
                                                    !.teardown = on_error(h0, id).teardown]
                          ELSE Returned([c1 EXCEPT !.rc = -1, !.err = parts.err,
                                                   !.failed = "url",
                                                   !.teardown = on_error(h0, id).teardown])
                  ELSE IF ~conn
                  THEN /\ Commit(on_error(h1, id))
                       /\ cred' = cred
                       /\ Returned([c1 EXCEPT !.rc = -1, !.err = "CONNECT",
                                              !.failed = "connect",
                                              !.teardown = on_error(h1, id).teardown])
                  ELSE IF ~inline /\ cb = "FAIL"
                  THEN \* line 302: return -1, no teardown
                       /\ Commit(h1)
                       /\ cred' = cred
                       /\ Returned([c1 EXCEPT !.rc = -1, !.failed = "cred"])
                  ELSE IF ~init
                  THEN /\ Commit(on_error(h1, id))
                       /\ cred' = newcred
                       /\ Returned([c1 EXCEPT !.rc = -1, !.failed = "session_init",
                                              !.teardown = on_error(h1, id).teardown])
                  ELSE /\ Commit([h1 EXCEPT !.sessions = @ \cup {id}])
                       /\ cred' = newcred
                       /\ pc' = "startup"
                       /\ setup' = [NoSetup EXCEPT !.s = id, !.session = id]
                       /\ ret' = [c1 EXCEPT !.done = FALSE]

\* Leaving the setup through on_error (lines 348-353): the local session is
\* not stored in the stream yet, so ssh_stream_free does not see it.
SetupFail(rc) ==
    /\ Commit(on_error(Heap, setup.s))
    /\ Returned([ret EXCEPT !.rc = -1, !.failed = pc, !.prov = rc,
                             !.teardown = on_error(Heap, setup.s).teardown])
    /\ UNCHANGED <<cred, nalloc, chan, held, lastList>>

\* One pass of the libssh2_session_startup loop (lines 315-321).
SessionStartup(rc) ==
    /\ pc = "startup"
    /\ IsTransient(rc) => setup.startup < MaxRetries
    /\ IF IsTransient(rc) \/ rc = "OK"
       THEN /\ setup' = [setup EXCEPT !.startup = @ + 1]
            /\ pc' = IF rc = "OK" THEN "auth" ELSE "startup"
            /\ ret' = [ret EXCEPT !.prov = rc]
            /\ UNCHANGED <<current_stream, cred, streams, nalloc, sockets, sessions,
                           channels, chan, held, lastList>>
       ELSE SetupFail(rc)

\* An authentication switch whose default case calls the provider too.
SupportedCred_Any(credtype) == TRUE

\* Whether _git_ssh_authenticate_session has a provider call for the
\* credtype (the cases of lines 236 and 245).
SupportedCred(credtype) == credtype \in {"USERPASS_PLAINTEXT", "SSH_KEYFILE_PASSPHRASE"}

\* One pass of the loop of _git_ssh_authenticate_session (lines 234-259) and,
\* when it ends, the test of line 326. rc is the provider's result; the
\* default case makes no provider call and yields -1.
Authenticate(rc) ==
    /\ pc = "auth"
    /\ IF SupportedCred(cred)
       THEN /\ IsTransient(rc) => setup.auth < MaxRetries
            /\ IF IsTransient(rc) \/ rc = "OK"
               THEN /\ setup' = [setup EXCEPT !.auth = @ + 1]
                    /\ pc' = IF rc = "OK" THEN "channel" ELSE "auth"
                    /\ ret' = [ret EXCEPT !.prov = rc]
                    /\ UNCHANGED <<current_stream, cred, streams, nalloc, sockets,
                                   sessions, channels, chan, held, lastList>>
               ELSE SetupFail(rc)
       ELSE /\ rc = "ERROR"
            /\ SetupFail("none")

\* A setup that publishes the stream before its channel is stored.
InstallHandles_NoChannel(s, session, channel) ==
    [s EXCEPT !.session = session]

\* The stream as lines 341-342 leave it.
InstallHandles(s, session, channel) ==
    [s EXCEPT !.session = session, !.channel = channel]

\* A setup that completes without storing the stream in the subtransport.
ChannelOpen_NoInstall(rc) ==
    /\ pc = "channel"
    /\ LET id == setup.s IN
       IF rc = "OK"
       THEN /\ Commit([Heap EXCEPT
                         !.channels = @ \cup {id},
                         !.streams[id] = InstallHandles(@, setup.session, id)])
            /\ Returned([ret EXCEPT !.prov = rc])
            /\ held' = held \cup {id}
            /\ lastList' = id
            /\ UNCHANGED <<cred, nalloc, chan>>
       ELSE SetupFail(rc)

\* libssh2_channel_open_session and the rest of the setup (lines 330-346).
\* The loop of line 333 tests rc, which is 0 since line 319, so the call is
\* made once whatever it reports.
ChannelOpen(rc) ==
    /\ pc = "channel"
    /\ LET id == setup.s IN
       IF rc = "OK"
       THEN /\ Commit([Heap EXCEPT
                         !.channels = @ \cup {id},
                         !.streams[id] = InstallHandles(@, setup.session, id),
                         !.current_stream = id])
            /\ Returned([ret EXCEPT !.prov = rc])
            /\ held' = held \cup {id}
            /\ lastList' = id
            /\ UNCHANGED <<cred, nalloc, chan>>
       ELSE SetupFail(rc)

\* -------------------------------------------------------- transfer actions
\* A transfer that reports success without assigning *stream.
TransferResult_NoAssign(kind, cur) ==
    IF cur # NULL
    THEN [rc |-> 0, set |-> FALSE, out |-> NULL, err |-> "NONE"]
    ELSE [rc |-> -1, set |-> FALSE, out |-> NULL,
          err |-> IF kind = "UPLOADPACK"
                  THEN "MUST_CALL_UPLOADPACK_LS" ELSE "MUST_CALL_RECEIVEPACK_LS"]

\* A transfer that returns the stream only for the service it was listed for.
TransferResult_SameService(kind, cur) ==
    IF cur # NULL /\ streams[cur].cmd = ServiceCmd(kind)
    THEN [rc |-> 0, set |-> TRUE, out |-> cur, err |-> "NONE"]
    ELSE [rc |-> -1, set |-> FALSE, out |-> NULL,
          err |-> IF kind = "UPLOADPACK"
                  THEN "MUST_CALL_UPLOADPACK_LS" ELSE "MUST_CALL_RECEIVEPACK_LS"]

\* A transfer that does not test current_stream.
TransferResult_NoTest(kind, cur) ==
    [rc |-> 0, set |-> TRUE, out |-> cur, err |-> "NONE"]

\* _git_uploadpack / _git_receivepack: [rc, set, out, err] from the
\* subtransport's current_stream; the url is unused.
TransferResult(kind, cur) ==
    IF cur # NULL
    THEN [rc |-> 0, set |-> TRUE, out |-> cur, err |-> "NONE"]
    ELSE [rc |-> -1, set |-> FALSE, out |-> NULL,
          err |-> IF kind = "UPLOADPACK"
                  THEN "MUST_CALL_UPLOADPACK_LS" ELSE "MUST_CALL_RECEIVEPACK_LS"]

\* _git_action for a transfer service.
CallTransfer(kind, url) ==
    /\ pc = "idle"
    /\ LET t == TransferResult(kind, current_stream) IN
       /\ Returned([Call("transfer", kind) EXCEPT
                      !.rc = t.rc, !.set = t.set, !.out = t.out,
                      !.err = t.err, !.s = t.out])
       /\ held' = IF t.rc = 0 THEN held \cup {t.out} ELSE held
    /\ UNCHANGED <<current_stream, cred, streams, nalloc, sockets, sessions, channels,
                   chan, lastList>>

\* ------------------------------------------------------------ stream calls
\* A read or write that never sends the command.
NeedsCommand_Never(s) == FALSE

\* A read or write that sends the command every time.
NeedsCommand_Always(s) == TRUE

\* Whether a read or write on stream s goes through send_command first
\* (lines 108 and 127).
NeedsCommand(s) == s.sent_command = 0

\* send_command on stream s, exec being the result of
\* libssh2_channel_process_startup: [rc, exec, sent_command, request].
send_command(s, exec) ==
    LET gp == gen_proto(s.cmd, s.url) IN
    IF gp.rc < 0
    THEN [rc |-> -1, exec |-> "nogen", sent_command |-> s.sent_command, request |-> <<>>]
    ELSE IF exec # "OK"
    THEN [rc |-> -1, exec |-> "fail", sent_command |-> s.sent_command,
          request |-> gp.request]
    ELSE [rc |-> 0, exec |-> "ok", sent_command |-> 1, request |-> gp.request]

\* The common body of ssh_stream_read and ssh_stream_write on stream id:
\* exec and io are the provider's results for the command and for the
\* channel read or write; a successful channel call moves one byte.
StreamIo(op, id, exec, io) ==
    /\ pc = "idle"
    /\ id \in held
    /\ LET s == streams[id]
           need == NeedsCommand(s)
           sc == IF need THEN send_command(s, exec)
                 ELSE [rc |-> 0, exec |-> "none", sent_command |-> s.sent_command,
                       request |-> <<>>]
           called == sc.exec \in {"ok", "fail"}
           forwards == sc.rc >= 0
           c == [Call(op, "-") EXCEPT !.s = id, !.exec = sc.exec, !.io = forwards]
       IN /\ streams' = [streams EXCEPT ![id].sent_command = sc.sent_command]
          /\ chan' = [chan EXCEPT
                        ![id].tried = @ \/ called,
                        ![id].ok = @ \/ sc.exec = "ok",
                        ![id].request = IF called THEN sc.request ELSE @,
                        ![id].io = @ \/ forwards]
          /\ Returned([c EXCEPT
                         !.rc = IF ~forwards \/ io # "OK" THEN -1
                                ELSE IF op = "read" THEN 0 ELSE 1])
    /\ UNCHANGED <<current_stream, cred, nalloc, sockets, sessions, channels, held,
                   lastList>>

ssh_stream_read(id, exec, io) == StreamIo("read", id, exec, io)

ssh_stream_write(id, exec, io) == StreamIo("write", id, exec, io)

\* The caller frees a stream it holds: ssh_stream_free through parent.free.
StreamFree(id) ==
    /\ pc = "idle"
    /\ id \in held
    /\ Commit(ssh_stream_free(Heap, id))
    /\ held' = held \ {id}
    /\ lastList' = NULL
    /\ chan' = [chan EXCEPT ![id] = NoChan]
    /\ Returned([Call("free", "-") EXCEPT
                   !.s = id, !.teardown = ssh_stream_free(Heap, id).teardown])
    /\ UNCHANGED <<cred, nalloc>>

\* ------------------------------------------------------- close and free
\* The assertion compiled out.
AssertNoStream_Off(cur) == TRUE

\* assert(!t->current_stream) of lines 440 and 451.
AssertNoStream(cur) == cur = NULL

\* _git_close: returns 0, or dies on the assertion.
Close ==
    /\ pc = "idle"
    /\ IF AssertNoStream(current_stream)
       THEN Returned(Call("close", "-"))
       ELSE /\ pc' = "aborted"
            /\ setup' = NoSetup
            /\ ret' = [Call("close", "-") EXCEPT !.done = FALSE]
    /\ UNCHANGED <<current_stream, cred, streams, nalloc, sockets, sessions, channels,
                   chan, held, lastList>>

\* _git_free: releases the subtransport, or dies on the assertion.
SubtransportFree ==
    /\ pc = "idle"
    /\ pc' = IF AssertNoStream(current_stream) THEN "freed" ELSE "aborted"
    /\ setup' = NoSetup
    /\ ret' = [Call("free_subtransport", "-") EXCEPT
                 !.done = AssertNoStream(current_stream)]
    /\ UNCHANGED <<current_stream, cred, streams, nalloc, sockets, sessions, channels,
                   chan, held, lastList>>

\* ------------------------------------------------------------ specification
\* The results the environment gives a List action on url; a result the
\* setup does not get to ask for is fixed, so that each run is drawn once.
ListInputs(url) ==
    LET parts == ParseUrl(url)
        all == [alloc : {"ok", "fail"}, conn : BOOLEAN,
                cb : CredTypes \cup {"FAIL"}, init : BOOLEAN, ub : {"crash", "benign"}]
        asksConn(e) == e.alloc = "ok" /\ parts.rc = 0
        asksCb(e) == asksConn(e) /\ e.conn /\ ~(parts.user /\ parts.pass)
        asksInit(e) == asksConn(e) /\ e.conn /\ (asksCb(e) => e.cb # "FAIL")
        frees(e) == e.alloc = "ok" /\ parts.rc < 0
    IN {e \in all : /\ ~asksConn(e) => e.conn
                    /\ ~asksCb(e) => e.cb = "FAIL"
                    /\ ~asksInit(e) => e.init
                    /\ ~frees(e) => e.ub = "benign"}

UploadPackList ==
    \E url \in Urls : \E e \in ListInputs(url) :
        CallList("UPLOADPACK_LS", url, e.alloc, e.conn, e.cb, e.init, e.ub)

ReceivePackList ==
    \E url \in Urls : \E e \in ListInputs(url) :
        CallList("RECEIVEPACK_LS", url, e.alloc, e.conn, e.cb, e.init, e.ub)

UploadPack == \E url \in {UrlSshUserPass, UrlShortNoColon} : CallTransfer("UPLOADPACK", url)

ReceivePack == \E url \in {UrlSshUserPass, UrlShortNoColon} : CallTransfer("RECEIVEPACK", url)

Startup == \E rc \in ProviderResults : SessionStartup(rc)

Auth == \E rc \in ProviderResults : Authenticate(rc)

OpenChannel == \E rc \in ProviderResults : ChannelOpen(rc)

\* The provider's results for a read or write on stream id: for the exec
\* when the command is still to be sent, for the channel call when it is made.
IoInputs(id) ==
    {e \in [exec : {"OK", "ERROR"}, io : {"OK", "ERROR"}] :
        /\ ~NeedsCommand(streams[id]) => e.exec = "OK"
        /\ e.exec = "ERROR" => e.io = "OK"}

Read == \E id \in held : \E e \in IoInputs(id) : ssh_stream_read(id, e.exec, e.io)

Write == \E id \in held : \E e \in IoInputs(id) : ssh_stream_write(id, e.exec, e.io)

Free == \E id \in held : StreamFree(id)

Next ==
    \/ UploadPackList
    \/ ReceivePackList
    \/ UploadPack
    \/ ReceivePack
    \/ Startup
    \/ Auth
    \/ OpenChannel
    \/ Read
    \/ Write
    \/ Free
    \/ Close
    \/ SubtransportFree

Spec == Init /\ [][Next]_vars

\* The passes of the two retry loops in which libssh2 answers with a result
\* that is not transient.
StartupEnds == \E rc \in {"OK", "ERROR"} : SessionStartup(rc)

AuthEnds == \E rc \in {"OK", "ERROR"} : Authenticate(rc)

\* The setup is straight-line blocking code, so once entered it keeps taking
\* its next step; a peer that answers at all makes libssh2 return a result
\* that is not transient to a loop that keeps asking.
SpecFair ==
    Spec /\ WF_vars(StartupEnds) /\ WF_vars(AuthEnds) /\ WF_vars(OpenChannel)

\* The caller that frees every stream it was handed before its next List
\* action, as libgit2's smart transport does.
FreesBeforeList == held = {}

NextDisciplined ==
    \/ FreesBeforeList /\ UploadPackList
    \/ FreesBeforeList /\ ReceivePackList
    \/ UploadPack
    \/ ReceivePack
    \/ Startup
    \/ Auth
    \/ OpenChannel
    \/ Read
    \/ Write
    \/ Free
    \/ Close
    \/ SubtransportFree

SpecDisciplined == Init /\ [][NextDisciplined]_vars

\* ------------------------------------------------------------------ claims
\* The streams that are allocated and not freed.
Live == {id \in StreamIds : streams[id].st = "live"}

\* The last call was a List action that returned an error.
ListFailed == ret.op = "list" /\ ret.done /\ ret.rc < 0

\* The last call was a List action that returned success.
ListSucceeded == ret.op = "list" /\ ret.done /\ ret.rc = 0

\* This step is a transfer action (every other step leaves ret.op another
\* value or ret as it is).
TransferStep == pc = "idle" /\ ret'.op = "transfer" /\ ret'.done

\* C1: when a List action succeeded and returned stream S, and neither a
\* free nor another List action came in between (lastList = S), the matching
\* transfer action succeeds and returns S, and leaves every stream, S with
\* its handles, command and command-sent flag included, as it was.
C1_TransferReturnsListedStream ==
    [][(/\ TransferStep
        /\ lastList # NULL
        /\ streams[lastList].cmd = ServiceCmd(ret'.kind))
       => (/\ ret'.rc = 0
           /\ ret'.set
           /\ ret'.out = lastList
           /\ streams[lastList].st = "live"
           /\ streams' = streams
           /\ chan' = chan)]_vars

\* C1 witness: a matching transfer has returned the stream of the latest
\* List action, after the caller had read or written on it.
C1_Witness ==
    /\ ret.op = "transfer"
    /\ ret.rc = 0
    /\ lastList # NULL
    /\ ret.out = lastList
    /\ streams[lastList].cmd = ServiceCmd(ret.kind)
    /\ streams[lastList].sent_command = 1

\* C2: a transfer action on a subtransport with no current stream fails
\* with the "Must call ... before ..." error, assigns no stream, and sets up
\* no connection: no stream is allocated, no handle is opened, nothing of
\* the subtransport changes.
C2_TransferWithoutStreamFails ==
    [][(TransferStep /\ current_stream = NULL)
       => (/\ ret'.rc = -1
           /\ ~ret'.set
           /\ ret'.err = (IF ret'.kind = "UPLOADPACK"
                           THEN "MUST_CALL_UPLOADPACK_LS"
                           ELSE "MUST_CALL_RECEIVEPACK_LS")
           /\ UNCHANGED <<current_stream, cred, streams, nalloc, sockets, sessions,
                          channels, setup, chan, held>>
           /\ pc' = "idle")]_vars

\* C2 witness: a transfer action has failed after the one stream allocated
\* so far was freed.
C2_Witness ==
    /\ ret.op = "transfer"
    /\ ret.rc = -1
    /\ ret.pre = NULL
    /\ \E id \in StreamIds : streams[id].st = "freed"

\* C3: with a caller that frees every stream it was handed before its next
\* List action, at most one stream of the subtransport is allocated and not
\* freed, in every reachable state.
C3_AtMostOneLiveStream == Cardinality(Live) <= 1

\* This step is a read or a write on a stream.
IoStep == pc = "idle" /\ ret'.op \in {"read", "write"}

\* C4: the channel of a stream is read or written only after an exec of the
\* remote command has succeeded on that stream, and a read or write whose
\* command could not be sent makes no channel read or write and fails.
C4_NoTransferBeforeCommand ==
    /\ \A id \in StreamIds : chan[id].io => chan[id].ok
    /\ (ret.op \in {"read", "write"} /\ ret.io)
        => (chan[ret.s].ok /\ streams[ret.s].sent_command = 1)
    /\ (ret.op \in {"read", "write"} /\ ret.exec \in {"fail", "nogen"})
        => (~ret.io /\ ret.rc = -1)

\* C4 witness: a write failed because its exec failed, on a stream whose
\* channel has carried no byte.
C4_Witness ==
    /\ ret.op = "write"
    /\ ret.exec = "fail"
    /\ ~chan[ret.s].io

C6_FailedSetupReleasesHandles ==
    (ListFailed /\ ret.s # NULL) => ret.s \notin (sockets \cup sessions \cup channels)

\* C7: when a List action returns an error, the caller's stream output is
\* NULL.
C7_FailedListOutputUnset == ListFailed => (ret.set /\ ret.out = NULL)

\* C8: when a List action returns an error, current_stream is what it was
\* when the action was called.
C8_FailedListKeepsCurrentStream == ListFailed => current_stream = ret.pre

\* C9: after a stream is freed (by the caller, or by a setup that failed)
\* current_stream is NULL; and a List action in whose setup no step failed
\* returns success with a stream that was not allocated before the call
\* (numbers above nalloc are unused), installed as current_stream, holding
\* its handles, with its command-sent flag unset.
C9_FreshStreamAfterFree ==
    /\ (ret.op = "free" /\ ret.done)
        => (current_stream = NULL /\ streams[ret.s].st = "freed")
    /\ (ListFailed /\ ret.s # NULL /\ streams[ret.s].st = "freed")
        => current_stream = NULL
    /\ (ret.op = "list" /\ ret.done /\ ret.failed = "none")
        => (/\ ret.rc = 0
            /\ ret.out = ret.s
            /\ current_stream = ret.s
            /\ streams[ret.s].st = "live"
            /\ streams[ret.s].sent_command = 0
            /\ streams[ret.s].channel # NULL
            /\ streams[ret.s].session # NULL
            /\ ~chan[ret.s].tried
            /\ ret.s = nalloc)
    /\ \A id \in StreamIds : id > nalloc => streams[id].st = "unalloc"

\* C9 witness: a List action has succeeded after an earlier stream was
\* freed.
C9_Witness ==
    /\ ListSucceeded
    /\ ret.pre = NULL
    /\ current_stream = ret.s
    /\ \E id \in StreamIds : id < ret.s /\ streams[id].st = "freed"

\* C10: close and the subtransport's free return exactly when current_stream
\* was NULL on entry, close then with 0; otherwise the assertion ends the
\* program.
C10_CloseOnlyWithoutStream ==
    (ret.op \in {"close", "free_subtransport"})
        => (/\ ret.done <=> ret.pre = NULL
            /\ ~ret.done => pc = "aborted"
            /\ (ret.op = "close" /\ ret.done) => (ret.rc = 0 /\ current_stream = NULL))

\* C10 witness: close died on its assertion with a stream held.
C10_Witness ==
    /\ ret.op = "close"
    /\ pc = "aborted"
    /\ current_stream # NULL
    /\ current_stream \in held

\* The command of an exec request: its bytes up to the terminator that
\* git_buf_putc appended.
CommandText(request) ==
    IF request # <<>> /\ request[Len(request)] = NUL
    THEN SubSeq(request, 1, Len(request) - 1)
    ELSE request

Quoted(cmd, path) == cmd \o <<" ", "'">> \o path \o <<"'">>

\* C11: on a stream listed with a shorthand [user@]host:path URL, the command
\* of every exec request is <service-command> '<path>', the path being what
\* follows the first ":" of the URL, the colon itself left out.
C11_ShorthandCommand ==
    \A id \in StreamIds :
        (chan[id].tried /\ ~HasPrefix(streams[id].url, prefix_ssh))
            => \E k \in 1..Len(streams[id].url) :
                   /\ streams[id].url[k] = ":"
                   /\ \A j \in 1..(k - 1) : streams[id].url[j] # ":"
                   /\ CommandText(chan[id].request)
                        = Quoted(streams[id].cmd,
                                 SubSeq(streams[id].url, k + 1, Len(streams[id].url)))

\* C12: on a stream listed with an ssh:// URL, every exec request carries
\* <service-command> '<path>' followed by the terminator, the path starting
\* at and including the first "/" after the authority, copied unescaped; the
\* service command is git-upload-pack for a stream of UploadPackList and
\* git-receive-pack for a stream of ReceivePackList; ssh://u:p@h/r listed
\* for upload-pack gives git-upload-pack '/r'.
C12_SshUrlCommand ==
    /\ \A id \in StreamIds :
           (chan[id].tried /\ HasPrefix(streams[id].url, prefix_ssh))
               => /\ chan[id].request = CommandText(chan[id].request) \o <<NUL>>
                  /\ \E k \in (Len(prefix_ssh) + 1)..Len(streams[id].url) :
                         /\ streams[id].url[k] = "/"
                         /\ \A j \in (Len(prefix_ssh) + 1)..(k - 1) : streams[id].url[j] # "/"
                         /\ CommandText(chan[id].request)
                              = Quoted(streams[id].cmd,
                                       SubSeq(streams[id].url, k, Len(streams[id].url)))
                  /\ (streams[id].url = UrlSshUserPass /\ streams[id].cmd = cmd_uploadpack)
                         => CommandText(chan[id].request)
                              = <<"g","i","t","-","u","p","l","o","a","d","-","p","a","c","k",
                                  " ","'","/","r","'">>
    /\ (ret.op = "list" /\ ret.done /\ ret.rc = 0)
           => streams[ret.s].cmd = (IF ret.kind = "UPLOADPACK_LS" THEN cmd_uploadpack
                                    ELSE cmd_receivepack)

\* C12 witness: a stream listed by ReceivePackList with an ssh:// URL whose
\* exec request was accepted by the provider.
C12_Witness ==
    \E id \in StreamIds :
        /\ chan[id].ok
        /\ HasPrefix(streams[id].url, prefix_ssh)
        /\ streams[id].cmd = cmd_receivepack
        /\ CommandText(chan[id].request)
             = <<"g","i","t","-","r","e","c","e","i","v","e","-","p","a","c","k",
                 " ","'","/","r","'">>

\* C13: a List whose shorthand URL has no ":" returns the malformed-URL
\* failure to its caller and leaves no socket, session or channel open for
\* the stream it allocated, which is freed.
C13_MalformedShorthandFails ==
    (ret.op = "list" /\ ret.err = "MALFORMED_URL_MISSING_COLON")
        => /\ ret.done
           /\ pc = "idle"
           /\ ret.rc = -1
           /\ ret.s \notin (sockets \cup sessions \cup channels)
           /\ streams[ret.s].st = "freed"

\* C14: the setup fails at the channel open only when the provider's result
\* for it is not transient; a transient result is followed by another
\* attempt, as in the session startup loop.
C14_ChannelOpenRetriesTransient ==
    (ListFailed /\ ret.failed = "channel") => ret.prov \notin {"EAGAIN", "TIMEOUT"}

\* C15: with a credential that is neither Plaintext nor KeyfilePassphrase,
\* the authentication step makes no provider call and is not repeated: the
\* List returns -1 from that very step, whatever the provider would answer.
C15_UnsupportedCredFailsAtOnce ==
    [][(pc = "auth" /\ cred \notin {"USERPASS_PLAINTEXT", "SSH_KEYFILE_PASSPHRASE"})
          => /\ setup.auth = 0
             /\ pc' = "idle"
             /\ ret'.op = "list"
             /\ ret'.done
             /\ ret'.rc = -1
             /\ ret'.failed = "auth"
             /\ ret'.prov = "none"]_vars

\* C15 witness: a List that failed in the authentication with a credential
\* of another type, no provider call made for it.
C15_Witness ==
    /\ ListFailed
    /\ ret.failed = "auth"
    /\ cred = "OTHER"
    /\ ret.prov = "none"

\* C16: a non-empty current_stream refers to a stream that is allocated and
\* not freed and whose setup completed: its session and channel are set and
\* still open at the provider, as is its socket.
C16_CurrentStreamNeverDangles ==
    current_stream # NULL
        => /\ current_stream \in StreamIds
           /\ streams[current_stream].st = "live"
           /\ streams[current_stream].session # NULL
           /\ streams[current_stream].channel # NULL
           /\ streams[current_stream].session \in sessions
           /\ streams[current_stream].channel \in channels
           /\ streams[current_stream].socket \in sockets

\* C16 witness: current_stream is the stream of a later List that replaced
\* the stream of an earlier one, which the caller still holds.
C16_Witness ==
    /\ current_stream # NULL
    /\ \E id \in held : id < current_stream /\ streams[id].st = "live"

TeardownOrder == <<"channel_close", "channel_free", "session_free", "gitno_close">>

\* log made a release call x.
Released(log, x) == \E i \in 1..Len(log) : log[i] = x

\* log is TeardownOrder with some of its calls left out: the calls it makes
\* come in that order and none comes twice.
InTeardownOrder(log) ==
    LET made(x) == Released(log, x) IN log = SelectSeq(TeardownOrder, made)

\* C17: a step that frees a stream, the caller's free or the setup's error
\* path, releases the handles in the stream's fields in the order channel
\* close, channel free, session free, socket close, each once, and makes no
\* release call for a field that is not set; the socket is closed exactly
\* when it was opened, and the stream's socket and channel are open at the
\* provider no more.
C17_TeardownOrder ==
    [][\A id \in StreamIds :
          (streams[id].st # "freed" /\ streams'[id].st = "freed")
              => LET log == ret'.teardown IN
                 /\ ret'.s = id
                 /\ InTeardownOrder(log)
                 /\ Released(log, "channel_close") <=> Released(log, "channel_free")
                 /\ streams[id].st = "live"
                       => /\ Released(log, "channel_close") <=> streams[id].channel # NULL
                          /\ Released(log, "session_free") <=> streams[id].session # NULL
                          /\ Released(log, "gitno_close") <=> streams[id].socket # NULL
                 /\ streams[id].st = "unalloc"
                       => /\ ~Released(log, "channel_close")
                          /\ ~Released(log, "session_free")
                          /\ Released(log, "gitno_close") <=> ret'.failed = "session_init"
                 /\ Released(log, "gitno_close") <=> (id \in sockets \/ ret'.failed = "session_init")
                 /\ id \notin (sockets' \cup channels')]_vars

\* C17 witness: the caller freed a stream whose setup had completed, and
\* all four release calls were made.
C17_Witness ==
    /\ ret.op = "free"
    /\ ret.done
    /\ ret.teardown = TeardownOrder

\* One pass of a retry loop: from loop to loop again exactly on a transient
\* result, on to next exactly on success, and out of the setup with the List
\* failing exactly on any other result; calls counts the passes.
RetryPass(loop, next, calls, calls2) ==
    /\ pc' \in {loop, next, "idle"}
    /\ pc' = loop <=> ret'.prov \in {"EAGAIN", "TIMEOUT"}
    /\ pc' = next <=> ret'.prov = "OK"
    /\ pc' = "idle" <=> ret'.prov = "ERROR"
    /\ pc' = "idle" => (ret'.op = "list" /\ ret'.done /\ ret'.rc = -1 /\ ret'.failed = loop)
    /\ pc' # "idle" => calls2 = calls + 1

\* C18: each pass of the session startup loop and of the authentication loop
\* (for a credential with a provider call) is followed by another pass
\* exactly when the provider's result is EAGAIN or TIMEOUT; success moves the
\* setup on, any other result makes the List return -1; and, the provider
\* answering with a result that is not transient sooner or later, a setup
\* that was entered returns.
C18_RetryWhileTransient ==
    /\ [][/\ pc = "startup" => RetryPass("startup", "auth", setup.startup, setup'.startup)
          /\ (pc = "auth" /\ cred \in {"USERPASS_PLAINTEXT", "SSH_KEYFILE_PASSPHRASE"})
                => RetryPass("auth", "channel", setup.auth, setup'.auth)]_vars
    /\ (pc \in {"startup", "auth", "channel"}) ~> (pc = "idle" /\ ret.op = "list" /\ ret.done)

\* C18 witness: the authentication loop is in a retry, after a session
\* startup that succeeded on a retry.
C18_Witness ==
    /\ pc = "auth"
    /\ setup.startup > 1
    /\ setup.auth > 0
    /\ ret.prov = "TIMEOUT"

\* The step frees a stream (ssh_stream_free ran, called by the caller or by
\* the error path of a setup).
FreesStream == \E id \in StreamIds : streams[id].st # "freed" /\ streams'[id].st = "freed"

\* The step completes a setup with success.
CompletesSetup == pc = "channel" /\ ret'.op = "list" /\ ret'.done /\ ret'.rc = 0

\* C19: current_stream changes only in a step that completes a setup, which
\* stores the new stream in it, or in a step that runs the stream free,
\* which empties it; a transfer action, whether it succeeds or fails, a
\* stream read, a stream write, and a close of the subtransport or its
\* release leave it as it was.
C19_CurrentStreamFrame ==
    [][/\ current_stream' # current_stream => (CompletesSetup \/ FreesStream)
       /\ CompletesSetup => (current_stream' = ret'.s /\ current_stream' # NULL)
       /\ FreesStream => current_stream' = NULL
       /\ (pc = "idle" /\ ret'.op \in {"transfer", "read", "write", "close", "free_subtransport"})
             => current_stream' = current_stream]_vars

\* C19 witness: a transfer has failed and left current_stream empty while
\* the caller holds a live stream, the slot having been emptied by the free
\* of another stream.
C19_Witness ==
    /\ ret.op = "transfer"
    /\ ret.rc = -1
    /\ current_stream = NULL
    /\ \E id \in held : streams[id].st = "live"
    /\ \E id \in StreamIds : streams[id].st = "freed"

\* C20: a transfer action, UploadPack or ReceivePack and whatever its URL
\* argument, succeeds exactly when a current stream is stored, returns that
\* stream whichever List kind created it, and leaves the stream, its service
\* command included, as the List action made it.
C20_TransferIgnoresKindAndUrl ==
    [][TransferStep
          => /\ ret'.kind \in {"UPLOADPACK", "RECEIVEPACK"}
             /\ ret'.rc = 0 <=> current_stream # NULL
             /\ ret'.rc = -1 <=> current_stream = NULL
             /\ current_stream # NULL
                   => /\ ret'.set
                      /\ ret'.out = current_stream
                      /\ streams'[current_stream] = streams[current_stream]
                      /\ streams'[current_stream].cmd \in {cmd_uploadpack, cmd_receivepack}]_vars

\* C20 witness: ReceivePack succeeded and returned the current stream, which
\* UploadPackList had created: its service command is still git-upload-pack.
C20_Witness ==
    /\ ret.op = "transfer"
    /\ ret.kind = "RECEIVEPACK"
    /\ ret.rc = 0
    /\ ret.out = current_stream
    /\ streams[ret.out].cmd = cmd_uploadpack
====
